---------------------------- MODULE Spec2Model ----------------------------
(***************************************************************************)
(* A model of the portfolio page scripts.                                  *)
(*                                                                         *)
(*   script.js       the current script: mobile menu, throttled scroll     *)
(*                   effects, IntersectionObserver-driven nav highlighting, *)
(*                   reveal / skill-bar / stat-counter effects.             *)
(*   unnamed/part_000 the earlier script: a scroll listener that recomputes *)
(*                   the active nav link on every scroll event.             *)
(*                                                                         *)
(* Three specifications share the variables:                               *)
(*   Spec      the page chrome of script.js (menu and scroll handling),    *)
(*   SpecNav   the active-nav-link tracking of both scripts,               *)
(*   SpecInit  the viewport-triggered effects and their fallbacks.         *)
(***************************************************************************)
EXTENDS Integers, Sequences, FiniteSets, TLC

VARIABLES
    pc,               \* "load": the script has not run yet; "run": listeners installed
    \* --- page chrome (script.js) ---
    hasNavbar,        \* qs("#navbar") found an element
    hasScrollTopBtn,  \* qs("#scroll-top") found an element
    hasNavToggle,     \* qs(".nav-toggle") found an element
    hasNavBackdrop,   \* qs(".nav-backdrop") found an element
    hasNavLinks,      \* qsa(".nav-link") is not empty
    dclPending,       \* DOMContentLoaded has not fired yet
    scrollY,          \* window.scrollY
    ticking,          \* let ticking
    rafQueue,         \* number of onScroll callbacks requested for the next frame
    navScrolled,      \* navbar has class "scrolled"
    btnVisible,       \* scroll-to-top button has class "visible"
    menuOpen,         \* body has class "menu-open"
    ariaExpanded,     \* aria-expanded of the toggle button: "true", "false" or NoAttr
    focus,            \* which element has the focus
    menuChanged,      \* history: some operation changed the menu-open class
    burst,            \* history: scroll notifications since the last frame
    frameBurst,       \* history: value of burst when the last frame ran
    frameRuns,        \* history: onScroll runs made by the last frame
    \* --- active nav link (script.js observer, part_000 scroll listener) ---
    sections,         \* qsa("section[id]"): sequence of [id, top, height]
    links,            \* qsa(".nav-link"): sequence of href strings
    vh,               \* viewport height
    active,           \* active[i]: link i has class "active"
    sectionObserver,  \* script.js created its sectionObserver
    legacyListener,   \* part_000 installed its scroll listener
    prevObs,          \* the observer's record per section: [isIntersecting, idx]
    \* --- viewport-triggered effects (script.js) ---
    hasIO,                \* "IntersectionObserver" in window
    prefersReducedMotion, \* matchMedia("(prefers-reduced-motion: reduce)").matches
    hasSkillsOverview,    \* qs(".skills-overview") found an element
    reveal,               \* reveal[i]: [visible, observed] of .reveal element i
    bars,                 \* bars[i]: [progress, width] of .skill-fill element i
    skillsObserved,       \* skillsObserver observes .skills-overview
    stats                 \* stats[i]: [count, suffix, text, observed, anim] of .stat-number i

chromeVars == <<hasNavbar, hasScrollTopBtn, hasNavToggle, hasNavBackdrop, hasNavLinks,
                dclPending, ticking, rafQueue, navScrolled, btnVisible,
                menuOpen, ariaExpanded, focus, menuChanged, burst, frameBurst, frameRuns>>
scrollVars == <<ticking, rafQueue, navScrolled, btnVisible, burst, frameBurst, frameRuns>>
menuVars   == <<menuOpen, ariaExpanded, focus, menuChanged>>
hostVars   == <<hasNavbar, hasScrollTopBtn, hasNavToggle, hasNavBackdrop, hasNavLinks>>
navVars    == <<sections, links, vh, active, sectionObserver, legacyListener, prevObs>>
fxVars     == <<hasIO, prefersReducedMotion, hasSkillsOverview, reveal, bars, skillsObserved, stats>>
vars       == <<pc, scrollY, chromeVars, navVars, fxVars>>

NoAttr == "none"   \* an attribute that is absent (getAttribute returns null)

(***************************************************************************)
(* Bounds of the model.                                                    *)
(***************************************************************************)
MaxBurst == 3      \* scroll notifications counted between two frames
MaxSections == 2   \* section[id] elements on the page
MaxLinks == 2      \* .nav-link elements on the page
MaxEls == 2        \* .reveal / .skill-fill / .stat-number elements, each

(***************************************************************************)
(* Program constants.                                                      *)
(***************************************************************************)
ScrolledAt == 20       \* navbar gets "scrolled" above this scroll position
VisibleAt == 500       \* scroll-to-top button gets "visible" above this position
LegacyLookahead == 200 \* part_000: a section counts from 200px before its top
NavHeightDefault == 76 \* getNavHeight() without a navbar
NavMarginMin == 60     \* Math.max(getNavHeight(), 60)
BottomMarginPct == 55  \* rootMargin bottom: -55%

\* Scroll positions the browser reports (around each threshold the code tests).
ScrollPositions == {0, 20, 21, 500, 501}

(***************************************************************************)
(* script.js, page chrome: mobile menu.                                    *)
(***************************************************************************)

\* openMenu(): add the class, set aria-expanded, focus the first panel link.
openMenu ==
    /\ menuOpen' = TRUE
    /\ ariaExpanded' = IF hasNavToggle THEN "true" ELSE ariaExpanded
    /\ focus' = IF hasNavLinks THEN "firstLink" ELSE focus

closeMenu_KeepAria ==
    /\ menuOpen' = FALSE
    /\ ariaExpanded' = ariaExpanded

\* closeMenu(): remove the class, set aria-expanded to "false".
closeMenu ==
    /\ menuOpen' = FALSE
    /\ ariaExpanded' = IF hasNavToggle THEN "false" ELSE ariaExpanded

\* toggleMenu()
toggleMenu ==
    IF menuOpen THEN closeMenu /\ focus' = focus ELSE openMenu

RecordMenuChange == menuChanged' = (menuChanged \/ menuOpen' # menuOpen)

\* click on .nav-toggle
ToggleClick ==
    /\ pc = "run"
    /\ hasNavToggle
    /\ toggleMenu
    /\ RecordMenuChange
    /\ UNCHANGED <<pc, scrollY, hostVars, dclPending, scrollVars, navVars, fxVars>>

\* click on .nav-backdrop
BackdropClick ==
    /\ pc = "run"
    /\ hasNavBackdrop
    /\ closeMenu
    /\ focus' = focus
    /\ RecordMenuChange
    /\ UNCHANGED <<pc, scrollY, hostVars, dclPending, scrollVars, navVars, fxVars>>

Keys == {"Escape", "Tab"}

\* keydown on the document
KeyDown(key) ==
    /\ pc = "run"
    /\ IF key = "Escape" /\ menuOpen
       THEN /\ closeMenu
            /\ focus' = IF hasNavToggle THEN "navToggle" ELSE focus
       ELSE UNCHANGED <<menuOpen, ariaExpanded, focus>>
    /\ RecordMenuChange
    /\ UNCHANGED <<pc, scrollY, hostVars, dclPending, scrollVars, navVars, fxVars>>

\* click on a .nav-link
NavLinkClick ==
    /\ pc = "run"
    /\ hasNavLinks
    /\ IF menuOpen
       THEN closeMenu /\ focus' = focus
       ELSE UNCHANGED <<menuOpen, ariaExpanded, focus>>
    /\ RecordMenuChange
    /\ UNCHANGED <<pc, scrollY, hostVars, dclPending, scrollVars, navVars, fxVars>>

(***************************************************************************)
(* script.js, page chrome: throttled scroll effects.                       *)
(***************************************************************************)

onScroll_KeepTicking ==
    /\ navScrolled' = IF hasNavbar THEN scrollY' > ScrolledAt ELSE navScrolled
    /\ btnVisible' = IF hasScrollTopBtn THEN scrollY' > VisibleAt ELSE btnVisible
    /\ ticking' = ticking

\* onScroll(): reads the scroll position when it runs, toggles both classes,
\* clears ticking.  (scrollY' is the position at the time of the call.)
onScroll ==
    /\ navScrolled' = IF hasNavbar THEN scrollY' > ScrolledAt ELSE navScrolled
    /\ btnVisible' = IF hasScrollTopBtn THEN scrollY' > VisibleAt ELSE btnVisible
    /\ ticking' = FALSE

\* The window's scroll listener: request one frame callback unless one is pending.
scrollListener ==
    /\ rafQueue' = IF ticking THEN rafQueue ELSE rafQueue + 1
    /\ ticking' = TRUE
    /\ burst' = IF burst < MaxBurst THEN burst + 1 ELSE burst
    /\ UNCHANGED <<navScrolled, btnVisible, frameBurst, frameRuns>>

\* The page is scrolled to y and the scroll event is dispatched.
Scroll(y) ==
    /\ pc = "run"
    /\ scrollY' = y
    /\ scrollListener
    /\ UNCHANGED <<pc, hostVars, dclPending, menuVars, navVars, fxVars>>

\* click on #scroll-top: window.scrollTo({top: 0}), which scrolls the page.
ScrollTopClick ==
    /\ pc = "run"
    /\ hasScrollTopBtn
    /\ scrollY' = 0
    /\ scrollListener
    /\ UNCHANGED <<pc, hostVars, dclPending, menuVars, navVars, fxVars>>

\* A rendering frame: the browser runs every callback requested since the last
\* frame, one after the other with no event in between; each is onScroll.
Frame ==
    /\ pc = "run"
    /\ rafQueue > 0
    /\ scrollY' = scrollY
    /\ onScroll
    /\ rafQueue' = 0
    /\ frameRuns' = rafQueue
    /\ frameBurst' = burst
    /\ burst' = 0
    /\ UNCHANGED <<pc, hostVars, dclPending, menuVars, navVars, fxVars>>

\* DOMContentLoaded: syncLayoutVars(); onScroll() called directly.
DOMContentLoaded ==
    /\ pc = "run"
    /\ dclPending
    /\ dclPending' = FALSE
    /\ scrollY' = scrollY
    /\ onScroll
    /\ UNCHANGED <<pc, hostVars, rafQueue, burst, frameBurst, frameRuns, menuVars,
                   navVars, fxVars>>

\* The script's top level: listeners installed, then syncLayoutVars(); onScroll().
Load ==
    /\ pc = "load"
    /\ pc' = "run"
    /\ scrollY' = scrollY
    /\ onScroll
    /\ UNCHANGED <<hostVars, dclPending, rafQueue, burst, frameBurst, frameRuns,
                   menuVars, navVars, fxVars>>

NavIdle ==
    /\ sections = <<>> /\ links = <<>> /\ vh = 0 /\ active = <<>>
    /\ sectionObserver = FALSE /\ legacyListener = FALSE /\ prevObs = <<>>

FxIdle ==
    /\ hasIO = TRUE /\ prefersReducedMotion = FALSE /\ hasSkillsOverview = FALSE
    /\ reveal = <<>> /\ bars = <<>> /\ skillsObserved = FALSE /\ stats = <<>>

\* The page as the HTML gives it, before script.js runs.
Init ==
    /\ pc = "load"
    /\ hasNavbar \in BOOLEAN
    /\ hasScrollTopBtn \in BOOLEAN
    /\ hasNavToggle \in BOOLEAN
    /\ hasNavBackdrop \in BOOLEAN
    /\ hasNavLinks \in BOOLEAN
    /\ dclPending \in BOOLEAN
    /\ scrollY \in ScrollPositions
    /\ ticking = FALSE
    /\ rafQueue = 0
    /\ navScrolled \in BOOLEAN
    /\ btnVisible \in BOOLEAN
    /\ menuOpen \in BOOLEAN
    /\ ariaExpanded \in {"true", "false", NoAttr}
    /\ (~hasNavToggle => ariaExpanded = NoAttr)
    /\ focus = "body"
    /\ menuChanged = FALSE
    /\ burst = 0
    /\ frameBurst = 0
    /\ frameRuns = 0
    /\ NavIdle
    /\ FxIdle

Next ==
    \/ Load
    \/ ToggleClick
    \/ BackdropClick
    \/ \E key \in Keys : KeyDown(key)
    \/ NavLinkClick
    \/ \E y \in ScrollPositions : Scroll(y)
    \/ ScrollTopClick
    \/ Frame
    \/ DOMContentLoaded

Spec == Init /\ [][Next]_vars

(***************************************************************************)
(* Page geometry.  Sections follow one another down the page; the viewport *)
(* shows [scrollY, scrollY + vh].                                          *)
(***************************************************************************)
Max(a, b) == IF a >= b THEN a ELSE b
Min(a, b) == IF a <= b THEN a ELSE b

AllIds == <<"a", "b", "c", "d">>
SectionIds == {AllIds[i] : i \in 1..MaxSections}
FirstTops == {0, 500}        \* offsetTop of the first section
Heights == {0, 100, 500}     \* clientHeight of a section
ViewportHeights == {300, 600}
NavScrollPositions == {0, 250, 310, 600}
Hrefs == {"#"} \cup {"#" \o id : id \in SectionIds}

\* Length of the part of [t, t + h] inside [lo, hi].
Overlap(t, h, lo, hi) == Max(0, Min(t + h, hi) - Max(t, lo))
\* [t, t + h] and [lo, hi] intersect or are edge-adjacent.
Touches(t, h, lo, hi) == t <= hi /\ t + h >= lo

(***************************************************************************)
(* part_000: active navigation link on scroll.                             *)
(***************************************************************************)

\* sections.forEach: the last section with scrollY >= offsetTop - 200 wins.
RECURSIVE LegacyCurrentFrom(_, _, _)
LegacyCurrentFrom(i, y, current) ==
    IF i > Len(sections) THEN current
    ELSE LegacyCurrentFrom(i + 1, y,
            IF y >= sections[i].top - LegacyLookahead THEN sections[i].id
            ELSE current)

LegacyCurrent(y) == LegacyCurrentFrom(1, y, "")

LegacyMark_NoRemove(current) ==
    [i \in DOMAIN links |-> active[i] \/ links[i] = "#" \o current]

\* navLinks.forEach: remove "active", add it back when href is `#${current}`.
LegacyMark(current) ==
    [i \in DOMAIN links |-> links[i] = "#" \o current]

\* The page is scrolled to y; part_000's scroll listener, when installed,
\* recomputes the active link.  (script.js reacts through its observer.)
NavScroll(y) ==
    /\ pc = "run"
    /\ scrollY' = y
    /\ active' = IF legacyListener THEN LegacyMark(LegacyCurrent(y)) ELSE active
    /\ UNCHANGED <<pc, chromeVars, sections, links, vh, sectionObserver,
                   legacyListener, prevObs, fxVars>>

(***************************************************************************)
(* script.js: active nav link highlighting through sectionObserver.        *)
(***************************************************************************)

\* getNavHeight(); the navbar of the modelled page has the default height.
NavHeight == NavHeightDefault

\* The observer's root: the viewport shrunk by rootMargin
\* `-${Math.max(getNavHeight(), 60)}px 0px -55% 0px`.
RootTop(y) == y + Max(NavHeight, NavMarginMin)
RootBottom(y) == y + vh - (vh * BottomMarginPct) \div 100

\* threshold: [0.35, 0.5, 0.65], in percent.
Thresholds == <<35, 50, 65>>

\* What the browser observes of section i at scroll position y: isIntersecting,
\* the intersection ratio num/den, and the index of the first threshold above
\* the ratio (the number of thresholds when there is none).
Observe(i, y) ==
    LET t == sections[i].top
        h == sections[i].height
        isInt == Touches(t, h, RootTop(y), RootBottom(y))
        num == IF h > 0 THEN Overlap(t, h, RootTop(y), RootBottom(y))
               ELSE IF isInt THEN 1 ELSE 0
        den == IF h > 0 THEN h ELSE 1
        above == {k \in DOMAIN Thresholds : Thresholds[k] * den > 100 * num}
        idx == IF above = {} THEN Len(Thresholds)
               ELSE (CHOOSE k \in above : \A m \in above : k <= m) - 1
    IN  [target |-> i, isIntersecting |-> isInt, num |-> num, den |-> den, idx |-> idx]

ObsState(e) == [isIntersecting |-> e.isIntersecting, idx |-> e.idx]

\* Sections whose observation changed since the observer last reported them.
ChangedTargets(y) ==
    {i \in DOMAIN sections : ObsState(Observe(i, y)) # prevObs[i]}

\* The entries of one notification: the changed sections, in the order they
\* were observed (document order).
RECURSIVE EntriesFrom(_, _)
EntriesFrom(i, y) ==
    IF i > Len(sections) THEN <<>>
    ELSE (IF i \in ChangedTargets(y) THEN <<Observe(i, y)>> ELSE <<>>)
         \o EntriesFrom(i + 1, y)

\* (b.intersectionRatio || 0) - (a.intersectionRatio || 0) < 0: a sorts before b
\* only when a's ratio is strictly the greater.
RatioGreater(a, b) == a.num * b.den > b.num * a.den

\* Array.prototype.sort is stable: e goes after every entry whose ratio is
\* not smaller than its own.
RECURSIVE InsertDesc(_, _)
InsertDesc(e, sorted) ==
    IF sorted = <<>> THEN <<e>>
    ELSE IF RatioGreater(e, Head(sorted)) THEN <<e>> \o sorted
    ELSE <<Head(sorted)>> \o InsertDesc(e, Tail(sorted))

RECURSIVE SortDesc(_)
SortDesc(es) ==
    IF es = <<>> THEN <<>>
    ELSE InsertDesc(es[Len(es)], SortDesc(SubSeq(es, 1, Len(es) - 1)))

\* entries.filter((e) => e.isIntersecting).sort(...)
Visible(entries) == SortDesc(SelectSeq(entries, LAMBDA e : e.isIntersecting))

\* link.classList.toggle("active", href === `#${id}`) for every link.
ObserverMark(id) ==
    [i \in DOMAIN links |-> links[i] = "#" \o id]

\* The sectionObserver callback, called with the changed sections.
SectionObserverCallback ==
    /\ pc = "run"
    /\ sectionObserver
    /\ ChangedTargets(scrollY) # {}
    /\ LET entries == EntriesFrom(1, scrollY)
           visible == Visible(entries)
       IN  active' = IF visible = <<>> THEN active
                     ELSE ObserverMark(sections[visible[1].target].id)
    /\ prevObs' = [i \in DOMAIN sections |-> ObsState(Observe(i, scrollY))]
    /\ UNCHANGED <<pc, scrollY, chromeVars, sections, links, vh, sectionObserver,
                   legacyListener, fxVars>>

ChromeIdle ==
    /\ hasNavbar = FALSE /\ hasScrollTopBtn = FALSE /\ hasNavToggle = FALSE
    /\ hasNavBackdrop = FALSE /\ hasNavLinks = (links # <<>>)
    /\ dclPending = FALSE /\ ticking = FALSE /\ rafQueue = 0
    /\ navScrolled = FALSE /\ btnVisible = FALSE
    /\ menuOpen = FALSE /\ ariaExpanded = NoAttr /\ focus = "body"
    /\ menuChanged = FALSE /\ burst = 0 /\ frameBurst = 0 /\ frameRuns = 0

\* Sequences of sections of length n laid out down the page: section i has
\* the i-th id, and starts where its predecessor ends.
RECURSIVE Layouts(_)
Layouts(n) ==
    IF n = 0 THEN {<<>>}
    ELSE IF n = 1
         THEN {<<[id |-> AllIds[1], top |-> t, height |-> h]>> :
                 t \in FirstTops, h \in Heights}
    ELSE {Append(l, [id |-> AllIds[n], top |-> l[n - 1].top + l[n - 1].height,
                     height |-> h]) : l \in Layouts(n - 1), h \in Heights}

LinkLists == UNION {[1..n -> Hrefs] : n \in 0..MaxLinks}

\* The page with one of the two scripts installed: script.js creates its
\* observer only when the page has sections.
InitNav ==
    /\ pc = "run"
    /\ sections \in UNION {Layouts(n) : n \in 0..MaxSections}
    /\ links \in LinkLists
    /\ vh \in ViewportHeights
    /\ scrollY = 0
    /\ active \in {f \in [DOMAIN links -> BOOLEAN] :
                     Cardinality({i \in DOMAIN links : f[i]}) <= 1}
    /\ sectionObserver \in BOOLEAN
    /\ legacyListener = ~sectionObserver
    /\ (sectionObserver => sections # <<>>)
    /\ prevObs = [i \in DOMAIN sections |-> [isIntersecting |-> FALSE, idx |-> -1]]
    /\ ChromeIdle
    /\ FxIdle

NextNav ==
    \/ \E y \in NavScrollPositions : NavScroll(y)
    \/ SectionObserverCallback

SpecNav == InitNav /\ [][NextNav]_vars

(***************************************************************************)
(* script.js: reveal animations, skill bars, stat counters.                *)
(***************************************************************************)

Digits == <<"0", "1", "2", "3", "4", "5", "6", "7", "8", "9">>

\* `${n}` for a natural number n.
RECURSIVE StrOf(_)
StrOf(n) == IF n < 10 THEN Digits[n + 1] ELSE StrOf(n \div 10) \o Digits[(n % 10) + 1]

\* Number(str) for the attribute values the modelled pages use.
NumberOf(str) ==
    CASE str = "" -> 0
      [] str = "0" -> 0
      [] str = "5" -> 5
      [] str = "05" -> 5
      [] str = "80" -> 80

\* attr || dflt: null and "" are falsy.
OrElse(attr, dflt) == IF attr = NoAttr \/ attr = "" THEN dflt ELSE attr

\* animateSkillBars(): every bar ends at `${p}%`, p = Number(data-progress || "0")
\* (the "0%" written first is overwritten within the same call).
animateSkillBars ==
    [i \in DOMAIN bars |->
        [bars[i] EXCEPT !.width = StrOf(NumberOf(OrElse(bars[i].progress, "0"))) \o "%"]]

\* The text animateNumber(el) finishes with: `${end}${suffix}`.
EndText(el) == StrOf(NumberOf(OrElse(el.count, "0"))) \o OrElse(el.suffix, "")

\* animateNumber(el): with reduced motion the final text at once, otherwise a
\* frame callback (tick) is requested.
animateNumber(el) ==
    IF prefersReducedMotion
    THEN [el EXCEPT !.text = EndText(el)]
    ELSE [el EXCEPT !.anim = "running"]

\* tick(now) at t = halves/2 of the duration: eased = t * (2 - t).
tick(el, halves) ==
    IF halves < 2
    THEN [el EXCEPT !.text =
            StrOf((NumberOf(OrElse(el.count, "0")) * halves * (4 - halves)) \div 4)
                \o OrElse(el.suffix, "")]
    ELSE [el EXCEPT !.text = EndText(el), !.anim = "done"]

\* The fallback without IntersectionObserver: if (end) el.textContent = ...
statFallback(el) ==
    IF OrElse(el.count, NoAttr) # NoAttr
    THEN [el EXCEPT !.text = el.count \o OrElse(el.suffix, "")]
    ELSE el

\* The script's top level, from "Reveal animations" to "Stat counters".
LoadEffects ==
    /\ pc = "load"
    /\ pc' = "run"
    /\ reveal' = IF prefersReducedMotion THEN [i \in DOMAIN reveal |-> [visible |-> TRUE, observed |-> FALSE]]
                 ELSE IF hasIO THEN [i \in DOMAIN reveal |-> [reveal[i] EXCEPT !.observed = TRUE]]
                 ELSE [i \in DOMAIN reveal |-> [visible |-> TRUE, observed |-> FALSE]]
    /\ IF hasSkillsOverview /\ hasIO
       THEN skillsObserved' = TRUE /\ bars' = bars
       ELSE IF hasSkillsOverview
       THEN skillsObserved' = FALSE /\ bars' = animateSkillBars
       ELSE UNCHANGED <<skillsObserved, bars>>
    /\ stats' = IF stats # <<>> /\ hasIO
                THEN [i \in DOMAIN stats |-> [stats[i] EXCEPT !.observed = TRUE]]
                ELSE [i \in DOMAIN stats |-> statFallback(stats[i])]
    /\ UNCHANGED <<scrollY, chromeVars, navVars, hasIO, prefersReducedMotion,
                   hasSkillsOverview>>

\* revealObserver callback: I are the observed elements reported intersecting.
RevealCallback(I) ==
    /\ pc = "run"
    /\ I # {}
    /\ \A i \in I : reveal[i].observed
    /\ reveal' = [i \in DOMAIN reveal |->
                    IF i \in I THEN [visible |-> TRUE, observed |-> FALSE] ELSE reveal[i]]
    /\ UNCHANGED <<pc, scrollY, chromeVars, navVars, hasIO, prefersReducedMotion,
                   hasSkillsOverview, bars, skillsObserved, stats>>

\* skillsObserver callback with .skills-overview intersecting.
SkillsCallback ==
    /\ pc = "run"
    /\ skillsObserved
    /\ bars' = animateSkillBars
    /\ skillsObserved' = FALSE
    /\ UNCHANGED <<pc, scrollY, chromeVars, navVars, hasIO, prefersReducedMotion,
                   hasSkillsOverview, reveal, stats>>

\* statsObserver callback: I are the observed elements reported intersecting.
StatsCallback(I) ==
    /\ pc = "run"
    /\ I # {}
    /\ \A i \in I : stats[i].observed
    /\ stats' = [i \in DOMAIN stats |->
                    IF i \in I THEN [animateNumber(stats[i]) EXCEPT !.observed = FALSE]
                    ELSE stats[i]]
    /\ UNCHANGED <<pc, scrollY, chromeVars, navVars, hasIO, prefersReducedMotion,
                   hasSkillsOverview, reveal, bars, skillsObserved>>

\* A frame in which the tick of element i's animation runs.
AnimTick(i, halves) ==
    /\ pc = "run"
    /\ stats[i].anim = "running"
    /\ stats' = [stats EXCEPT ![i] = tick(stats[i], halves)]
    /\ UNCHANGED <<pc, scrollY, chromeVars, navVars, hasIO, prefersReducedMotion,
                   hasSkillsOverview, reveal, bars, skillsObserved>>

ProgressAttrs == {NoAttr, "80"}
CountAttrs == {NoAttr, "", "5", "05"}
SuffixAttrs == {NoAttr, "+"}
UnsetText == ""      \* the text of a .stat-number element the script has not set
UnsetWidth == ""     \* the inline width of a .skill-fill element not yet set

SeqsUpTo(S, n) == UNION {[1..k -> S] : k \in 0..n}

\* The page as the HTML gives it, before script.js runs.
InitFx ==
    /\ pc = "load"
    /\ hasIO \in BOOLEAN
    /\ prefersReducedMotion \in BOOLEAN
    /\ hasSkillsOverview \in BOOLEAN
    /\ reveal \in SeqsUpTo({[visible |-> FALSE, observed |-> FALSE]}, MaxEls)
    /\ bars \in SeqsUpTo({[progress |-> p, width |-> UnsetWidth] : p \in ProgressAttrs},
                         MaxEls)
    /\ (~hasSkillsOverview => bars = <<>>)
    /\ skillsObserved = FALSE
    /\ stats \in SeqsUpTo({[count |-> c, suffix |-> x, text |-> UnsetText,
                            observed |-> FALSE, anim |-> "idle"] :
                              c \in CountAttrs, x \in SuffixAttrs}, MaxEls)
    /\ scrollY = 0
    /\ hasNavbar = FALSE /\ hasScrollTopBtn = FALSE /\ hasNavToggle = FALSE
    /\ hasNavBackdrop = FALSE /\ hasNavLinks = FALSE
    /\ dclPending = FALSE /\ ticking = FALSE /\ rafQueue = 0
    /\ navScrolled = FALSE /\ btnVisible = FALSE
    /\ menuOpen = FALSE /\ ariaExpanded = NoAttr /\ focus = "body"
    /\ menuChanged = FALSE /\ burst = 0 /\ frameBurst = 0 /\ frameRuns = 0
    /\ NavIdle

NextFx ==
    \/ LoadEffects
    \/ \E I \in SUBSET DOMAIN reveal : RevealCallback(I)
    \/ SkillsCallback
    \/ \E I \in SUBSET DOMAIN stats : StatsCallback(I)
    \/ \E i \in DOMAIN stats, halves \in 0..2 : AnimTick(i, halves)

SpecInit == InitFx /\ [][NextFx]_vars

(***************************************************************************)
(* Claim about the fallbacks, checked under SpecInit.                      *)
(***************************************************************************)

\* C8: without IntersectionObserver, initialisation leaves every .reveal
\* element is-visible, every skill bar at its data-progress width and every
\* .stat-number element showing its final count with suffix (the count as
\* data-count writes it, or as the number it denotes); none is left unset.
C8_FallbackLeavesFinalState ==
    (pc = "run" /\ ~hasIO) =>
        /\ \A i \in DOMAIN reveal : reveal[i].visible
        /\ \A i \in DOMAIN bars :
              bars[i].width = StrOf(NumberOf(OrElse(bars[i].progress, "0"))) \o "%"
        /\ \A i \in DOMAIN stats :
              /\ stats[i].text # UnsetText
              /\ stats[i].text \in {EndText(stats[i]),
                                    OrElse(stats[i].count, "0") \o OrElse(stats[i].suffix, "")}

(***************************************************************************)
(* Claims about the page chrome, checked under Spec.                       *)
(***************************************************************************)

\* C2: the scroll notifications that arrive between two frames cause exactly
\* one recomputation (one onScroll run) at the next frame, in every
\* interleaving with the direct onScroll calls at load and DOMContentLoaded.
C2_OneRecomputationPerFrame ==
    frameBurst > 0 => frameRuns = 1

\* C9: once every pending frame callback has run, the navbar has "scrolled"
\* exactly when the scroll position is above 20 and the button has "visible"
\* exactly when it is above 500; ticking is never true with no callback pending.
C9_SettledClassesMatchScroll ==
    pc = "run" =>
        /\ (rafQueue = 0 /\ hasNavbar) => (navScrolled <=> scrollY > 20)
        /\ (rafQueue = 0 /\ hasScrollTopBtn) => (btnVisible <=> scrollY > 500)
        /\ ticking => rafQueue > 0

\* C9 witness: a frame has served scroll notifications, nothing is pending,
\* and the page rests beyond both thresholds with both classes set.
C9_Witness ==
    /\ pc = "run" /\ frameBurst > 1 /\ rafQueue = 0 /\ ~ticking
    /\ hasNavbar /\ hasScrollTopBtn
    /\ scrollY > 500 /\ navScrolled /\ btnVisible

MenuClosers == BackdropClick \/ (\E key \in Keys : KeyDown(key)) \/ NavLinkClick

\* C10: after any sequence of menu operations of which at least one changed the
\* menu, aria-expanded of the toggle button is "true" exactly when the body has
\* class "menu-open"; backdrop click, Escape and nav-link click never open a
\* closed menu.
C10_AriaMatchesMenu ==
    /\ []((menuChanged /\ hasNavToggle) => (ariaExpanded = "true" <=> menuOpen))
    /\ [][(MenuClosers /\ ~menuOpen) => ~menuOpen']_vars

\* C10 witness: the menu was opened by the toggle and aria-expanded says so,
\* on a page whose HTML started with the opposite attribute value.
C10_Witness ==
    /\ menuChanged /\ hasNavToggle /\ menuOpen /\ ariaExpanded = "true"
    /\ focus = "firstLink"

(***************************************************************************)
(* Claims about the active nav link, checked under SpecNav.  ViewportOverlap, *)
(* IntersectsViewport, TopRatio and MarkedFor are the claims' vocabulary:  *)
(* what is visible of a section in the viewport, and which links a chosen  *)
(* section should mark.                                                    *)
(***************************************************************************)

ActiveLinks == {i \in DOMAIN links : active[i]}

\* Link i targets section s.
Targets(i, s) == links[i] = "#" \o sections[s].id

\* A recomputation of the active link: by part_000's scroll listener, or by
\* script.js's observer callback.
LegacyRecompute == legacyListener /\ \E y \in NavScrollPositions : NavScroll(y)
ObserverRecompute == SectionObserverCallback
Recompute == LegacyRecompute \/ ObserverRecompute

\* The part of section s inside the viewport at scroll position y.
ViewportOverlap(s, y) == Overlap(sections[s].top, sections[s].height, y, y + vh)
IntersectsViewport(s, y) == Touches(sections[s].top, sections[s].height, y, y + vh)

\* The links that target some section of the page.
KnownLinks == {i \in DOMAIN links : \E s \in DOMAIN sections : Targets(i, s)}

\* Among the links that target a section, those marked active are exactly
\* the ones that target section s.
MarkedFor(s, act) == \A i \in KnownLinks : act[i] <=> Targets(i, s)

\* C1 (as stated): in every reachable state at most one NavLink is active,
\* also when links share an href.  Stated for the links that target a known
\* section, so that a link marked for matching no section does not count.
C1_AtMostOneActive ==
    Cardinality(ActiveLinks \cap KnownLinks) <= 1

\* C1 (amended): in every reachable state all active NavLinks carry the same
\* href, so at most one NavLink is active when the hrefs are pairwise distinct.
C1_ActiveLinksShareHref ==
    \A i, j \in ActiveLinks : links[i] = links[j]

\* C1 witness: a recomputation has marked two links that target the same
\* section, away from the initial scroll position.
C1_Witness ==
    /\ Cardinality(ActiveLinks \cap KnownLinks) = 2
    /\ \E s \in DOMAIN sections : MarkedFor(s, active)
    /\ scrollY > 0

\* C3: a recomputation that finds no section intersecting the viewport leaves
\* the active marking of every NavLink as it was (stated for the links that
\* target a section).
C3_NoIntersectionKeepsMarking ==
    [][(Recompute /\ \A s \in DOMAIN sections : ~IntersectsViewport(s, scrollY'))
          => \A i \in KnownLinks : active'[i] = active[i]]_vars

\* C4: when one section covers more than half of the visible viewport, the
\* recomputation at that scroll position marks the links targeting it active
\* and every other link inactive.
C4_MajoritySectionMarked ==
    [][Recompute =>
          \A s \in DOMAIN sections :
              2 * ViewportOverlap(s, scrollY') > vh => MarkedFor(s, active')]_vars

\* Sections visible at y whose intersection ratio no visible section exceeds:
\* the ratio is the visible fraction of the section in the viewport.
TopRatio(y) ==
    LET vis == {s \in DOMAIN sections : ViewportOverlap(s, y) > 0}
    IN  {s \in vis : \A r \in vis :
            ViewportOverlap(s, y) * sections[r].height
                >= ViewportOverlap(r, y) * sections[s].height}

\* The same with the ratios the observer reports (relative to its root).
TopRatioObserved(y) ==
    LET vis == {s \in DOMAIN sections : Observe(s, y).isIntersecting}
    IN  {s \in vis : \A r \in vis : ~RatioGreater(Observe(r, y), Observe(s, y))}

First(S) == CHOOSE s \in S : \A r \in S : s <= r

\* C5: when two or more sections intersect the viewport with equal highest
\* ratio, the recomputation chooses the first of them in document order.
C5_TieGoesToFirstInDocumentOrder ==
    [][/\ LegacyRecompute =>
            (Cardinality(TopRatio(scrollY')) >= 2 =>
                MarkedFor(First(TopRatio(scrollY')), active'))
       /\ ObserverRecompute =>
            (Cardinality(TopRatioObserved(scrollY')) >= 2 =>
                MarkedFor(First(TopRatioObserved(scrollY')), active'))]_vars

\* C6: no recomputation marks a NavLink whose href matches no section id,
\* href "#" included.
C6_UnmatchedLinkNeverMarked ==
    [][Recompute =>
          \A i \in DOMAIN links :
              ((\A s \in DOMAIN sections : ~Targets(i, s)) /\ ~active[i])
                  => ~active'[i]]_vars

\* C7: no recomputation selects a section whose height or offset is zero or
\* negative: no link that targets such a section becomes active.
C7_DegenerateSectionNeverSelected ==
    [][Recompute =>
          \A s \in DOMAIN sections :
              (sections[s].height <= 0 \/ sections[s].top <= 0) =>
                  \A i \in DOMAIN links :
                      (Targets(i, s) /\ ~active[i]) => ~active'[i]]_vars

=============================================================================
